---------------------------- MODULE Spec2Model ----------------------------
(***************************************************************************)
(* Model of rs-sixaxispairer: the MAC address type (src/src/mac.rs), the   *)
(* controller session with its device matcher and the two feature-report   *)
(* layouts (src/src/sixaxis.rs) and the command-line flows that drive them *)
(* (src/src/main.rs).                                                      *)
(*                                                                         *)
(* Text is a sequence of one-character strings, a byte is a number in      *)
(* 0..255, Option<T> is either None or a value of T, Result<T, E> is a     *)
(* record with an ok flag.                                                 *)
(***************************************************************************)
EXTENDS Integers, Sequences, FiniteSets

VARIABLES
    mstep,      \* MAC value spec: "mac" | "text" | "parsed"
    macv,       \* MAC value spec: the MACAddress being formatted, or None
    text,       \* MAC value spec: the text handed to from_string
    parsed,     \* MAC value spec: from_string's result, or None
    pc,         \* program: the caller's position
    caller,     \* program: "none" | "main" | "api"
    args,       \* program: device_id / protocol / command arguments
    api,        \* program: HidApi::new() in open: "none" | "ok" | "failed"
    devs,       \* program: api.device_list(), set when open enumerates
    controller, \* program: the SixAxisController (protocol, device, handle), or None
    opens,      \* program: number of api.open calls made
    mac,        \* program: the MACAddress of the current pair / set call, or None
    sent,       \* transport: the last report handed to send_feature_report
    stored,     \* device: the six paired-host bytes it holds, in wire order
    reply,      \* transport: the reply get_feature_report delivered, or None
    report,     \* program: the get buffer after the transport filled it
    result,     \* program: the result of the last operation
    calls,      \* program: number of session operations made by the api caller
    exit_code   \* program: the code given to std::process::exit, or None

macvars == <<mstep, macv, text, parsed>>
progvars == <<pc, caller, args, api, devs, controller, opens, mac, sent, stored,
              reply, report, result, calls, exit_code>>
vars == <<mstep, macv, text, parsed, pc, caller, args, api, devs, controller,
          opens, mac, sent, stored, reply, report, result, calls, exit_code>>

\* Option<T>: None is the empty tuple, Some(x) the one-element tuple.
None == <<>>
Some(x) == <<x>>
unwrap(o) == o[1]

-----------------------------------------------------------------------------
(* Bounds of the model.                                                    *)

\* Most ':'-separated segments of a text handed to from_string.
MaxSegs == 7
\* Most devices the transport enumerates.
MaxDevices == 2
\* Most bytes a get_feature_report reply may fall short of the buffer.
MaxShort == 2
\* Most session operations the api caller makes before it releases the session.
MaxCalls == 2

-----------------------------------------------------------------------------
(* src/src/mac.rs                                                          *)

UpperHex == <<"0", "1", "2", "3", "4", "5", "6", "7",
              "8", "9", "A", "B", "C", "D", "E", "F">>
LowerHex == <<"0", "1", "2", "3", "4", "5", "6", "7",
              "8", "9", "a", "b", "c", "d", "e", "f">>

\* char::to_digit(16): the digit's value, or -1 when c is no hex digit.
to_digit(c) ==
    IF \E i \in 1..16 : UpperHex[i] = c
    THEN (CHOOSE i \in 1..16 : UpperHex[i] = c) - 1
    ELSE IF \E i \in 1..16 : LowerHex[i] = c
    THEN (CHOOSE i \in 1..16 : LowerHex[i] = c) - 1
    ELSE -1

\* The digit loop of u8::from_str_radix: acc so far, -1 once it has failed
\* (a character that is no digit, or a value above u8::MAX).
RECURSIVE radix_digits(_, _)
radix_digits(digits, acc) ==
    IF digits = <<>> THEN acc
    ELSE LET x == to_digit(Head(digits))
             v == acc * 16 + x
         IN  IF x < 0 \/ v > 255 THEN -1
             ELSE radix_digits(Tail(digits), v)

\* u8::from_str_radix(src, 16) as from_string uses it: the byte, or -1 for Err.
\* An empty string and a lone sign are errors; one leading '+' is skipped;
\* '-' is no digit of an unsigned type.
from_str_radix(src) ==
    IF src = <<>> THEN -1
    ELSE IF Len(src) = 1 /\ Head(src) \in {"+", "-"} THEN -1
    ELSE IF Head(src) = "+" THEN radix_digits(Tail(src), 0)
    ELSE radix_digits(src, 0)

\* mac.split(':'): the segments between the colons; a text without a colon
\* (the empty text too) is one segment.
RECURSIVE split_from(_, _)
split_from(s, cur) ==
    IF s = <<>> THEN <<cur>>
    ELSE IF Head(s) = ":" THEN <<cur>> \o split_from(Tail(s), <<>>)
    ELSE split_from(Tail(s), Append(cur, Head(s)))

split(s) == split_from(s, <<>>)

\* The loop of from_string over the segments, i the 0-based index of the
\* next one, bytes the array filled so far.
RECURSIVE parse_bytes(_, _, _)
parse_bytes(segs, i, bytes) ==
    IF i >= Len(segs) THEN [ok |-> TRUE, bytes |-> bytes]
    ELSE LET byte == segs[i + 1]
             b == from_str_radix(byte)
         IN  IF b < 0
             THEN [ok |-> FALSE, kind |-> "InvalidByte",
                   position |-> i + 1, text |-> byte]
             ELSE parse_bytes(segs, i + 1, [bytes EXCEPT ![i + 1] = b])

\* MACAddress::from_string
from_string(s) ==
    LET byte_strs == split(s)
    IN  IF Len(byte_strs) # 6
        THEN [ok |-> FALSE, kind |-> "MalformedAddress",
              expected |-> 6, got |-> Len(byte_strs)]
        ELSE parse_bytes(byte_strs, 0, <<0, 0, 0, 0, 0, 0>>)

\* fmt_02X written with "{:02x}": lower-case digits.
fmt_02x_lower(b) == <<LowerHex[(b \div 16) + 1], LowerHex[(b % 16) + 1]>>

\* "{:02X}": two upper-case hex digits.
fmt_02X(b) == <<UpperHex[(b \div 16) + 1], UpperHex[(b % 16) + 1]>>

\* impl Display for MACAddress
fmt(bytes) ==
    fmt_02X(bytes[1]) \o <<":">> \o fmt_02X(bytes[2]) \o <<":">> \o
    fmt_02X(bytes[3]) \o <<":">> \o fmt_02X(bytes[4]) \o <<":">> \o
    fmt_02X(bytes[5]) \o <<":">> \o fmt_02X(bytes[6])

\* MACAddress::from_bytes and MACAddress::as_bytes keep the array as it is.
from_bytes(bytes) == bytes
as_bytes(m) == m

-----------------------------------------------------------------------------
(* src/src/sixaxis.rs                                                      *)

SixAxisProtocol == {"SixAxis", "DualShock4"}

USBDeviceId(v, p) == [vendor |-> v, product |-> p]

\* 0x054c = 1356, 0x0268 = 616, 0x042f = 1071, 0x05c4 = 1476
KNOWN_DEVICES ==
    << [name |-> "Sony PlayStation 3 Controller", protocol |-> "SixAxis",
        id |-> USBDeviceId(1356, 616)],
       [name |-> "Sony Move Motion Controller", protocol |-> "SixAxis",
        id |-> USBDeviceId(1356, 1071)],
       [name |-> "Sony DualShock 4 Controller", protocol |-> "DualShock4",
        id |-> USBDeviceId(1356, 1476)] >>

\* The error values open returns, and the transport's own error.
ProtocolRequired == "Device found, but no protocol specified."
NoSupportedDeviceFound == "No supported devices found."
HidError == "HidError"

\* known_scan comparing the vendor id only.
RECURSIVE known_scan_vendor_only(_, _, _)
known_scan_vendor_only(device, k, acc) ==
    IF k > Len(KNOWN_DEVICES) THEN acc
    ELSE LET known_device == KNOWN_DEVICES[k]
         IN  IF device.vendor = known_device.id.vendor
             THEN known_scan_vendor_only(device, k + 1,
                      [protocol |-> Some(known_device.protocol),
                       should_open |-> TRUE])
             ELSE known_scan_vendor_only(device, k + 1, acc)

\* open, the inner loop over KNOWN_DEVICES from record k on: every record
\* that equals the device sets protocol and should_open (the loop does not
\* break).
RECURSIVE known_scan(_, _, _)
known_scan(device, k, acc) ==
    IF k > Len(KNOWN_DEVICES) THEN acc
    ELSE LET known_device == KNOWN_DEVICES[k]
         IN  IF device.vendor = known_device.id.vendor
                /\ device.product = known_device.id.product
             THEN known_scan(device, k + 1,
                      [protocol |-> Some(known_device.protocol),
                       should_open |-> TRUE])
             ELSE known_scan(device, k + 1, acc)

\* device_step comparing only the vendor id with the filter.
device_step_vendor_only(device, device_id, protocol) ==
    IF device_id # None
    THEN [protocol |-> protocol,
          should_open |-> device.vendor = unwrap(device_id).vendor]
    ELSE known_scan(device, 1, [protocol |-> protocol, should_open |-> FALSE])

\* open, the body of the loop over the devices up to "if should_open".
device_step(device, device_id, protocol) ==
    IF device_id # None
    THEN [protocol |-> protocol,
          should_open |-> device.vendor = unwrap(device_id).vendor
                          /\ device.product = unwrap(device_id).product]
    ELSE known_scan(device, 1, [protocol |-> protocol, should_open |-> FALSE])

\* open, the loop over api.device_list() from device i on: what open decides
\* before it touches the transport.
RECURSIVE open_scan(_, _, _, _)
open_scan(list, i, device_id, protocol) ==
    IF i > Len(list)
    THEN [kind |-> "err", err |-> NoSupportedDeviceFound]
    ELSE LET step == device_step(list[i], device_id, protocol)
         IN  IF step.should_open
             THEN IF step.protocol = None
                  THEN [kind |-> "err", err |-> ProtocolRequired]
                  ELSE [kind |-> "open", index |-> i,
                        protocol |-> unwrap(step.protocol)]
             ELSE open_scan(list, i + 1, device_id, protocol)

\* api.open(vendor, product): the transport opens the first enumerated device
\* with these ids.
api_open(list, vendor, product) ==
    CHOOSE j \in 1..Len(list) :
        /\ list[j].vendor = vendor /\ list[j].product = product
        /\ \A h \in 1..(j - 1) :
               ~(list[h].vendor = vendor /\ list[h].product = product)

\* open with the protocol checked only after api.open was called.
open_protocol_checked_late(device_id, protocol, api_ok, list, open_ok) ==
    IF ~api_ok
    THEN [ok |-> FALSE, err |-> HidError, controller |-> None, opens |-> 0]
    ELSE LET found == open_scan(list, 1, device_id, Some("SixAxis"))
             asked == open_scan(list, 1, device_id, protocol)
         IN  IF found.kind = "err"
             THEN [ok |-> FALSE, err |-> found.err, controller |-> None,
                   opens |-> 0]
             ELSE IF ~open_ok
             THEN [ok |-> FALSE, err |-> HidError, controller |-> None,
                   opens |-> 1]
             ELSE IF asked.kind = "err"
             THEN [ok |-> FALSE, err |-> asked.err, controller |-> None,
                   opens |-> 1]
             ELSE [ok |-> TRUE, err |-> "",
                   controller |->
                       Some([device |-> api_open(list,
                                                 list[asked.index].vendor,
                                                 list[asked.index].product),
                             protocol |-> asked.protocol,
                             handle |-> "Open"]),
                   opens |-> 1]

\* SixAxisController::open with the transport's answers: api_ok (HidApi::new),
\* list (api.device_list()), open_ok (api.open).
\* Gives the Result, the controller built and the number of api.open calls.
open(device_id, protocol, api_ok, list, open_ok) ==
    IF ~api_ok
    THEN [ok |-> FALSE, err |-> HidError, controller |-> None, opens |-> 0]
    ELSE LET found == open_scan(list, 1, device_id, protocol)
         IN  IF found.kind = "err"
             THEN [ok |-> FALSE, err |-> found.err, controller |-> None,
                   opens |-> 0]
             ELSE IF ~open_ok
             THEN [ok |-> FALSE, err |-> HidError, controller |-> None,
                   opens |-> 1]
             ELSE [ok |-> TRUE, err |-> "",
                   controller |->
                       Some([device |-> api_open(list,
                                                 list[found.index].vendor,
                                                 list[found.index].product),
                             protocol |-> found.protocol,
                             handle |-> "Open"]),
                   opens |-> 1]

reverse(s) == [i \in 1..Len(s) |-> s[Len(s) + 1 - i]]

zeros(n) == [i \in 1..n |-> 0]

\* get_paired_mac, "prepare report buffer": [0; 8] with 0xf5, [0; 16] with 0x12.
get_request(protocol) ==
    IF protocol = "SixAxis"
    THEN [zeros(8) EXCEPT ![1] = 245]
    ELSE [zeros(16) EXCEPT ![1] = 18]

\* device.get_feature_report(&mut report): the transport writes the bytes it
\* received over the front of the buffer and leaves the rest as it was.
get_feature_report(buffer, received) ==
    [i \in 1..Len(buffer) |->
        IF i <= Len(received) THEN received[i] ELSE buffer[i]]

\* get_mac_bytes without the reversal of the DualShock4 bytes.
get_mac_bytes_unreversed(protocol, buffer) ==
    IF protocol = "SixAxis"
    THEN SubSeq(buffer, 3, 8)
    ELSE SubSeq(buffer, 11, 16)

\* get_paired_mac, "extract mac address": report[2..8], or report[10..16]
\* reversed.
get_mac_bytes(protocol, buffer) ==
    IF protocol = "SixAxis"
    THEN SubSeq(buffer, 3, 8)
    ELSE reverse(SubSeq(buffer, 11, 16))

\* SixAxisController::get_paired_mac with the transport's answer: io_ok and the
\* bytes received.
get_paired_mac(protocol, io_ok, received) ==
    IF ~io_ok
    THEN [op |-> "get", ok |-> FALSE, err |-> HidError, val |-> None,
          report |-> get_request(protocol)]
    ELSE LET filled == get_feature_report(get_request(protocol), received)
         IN  [op |-> "get", ok |-> TRUE, err |-> "",
              val |-> from_bytes(get_mac_bytes(protocol, filled)),
              report |-> filled]

\* set_report without the reversal of the DualShock4 bytes.
set_report_unreversed(protocol, m) ==
    IF protocol = "SixAxis"
    THEN <<245, 0>> \o as_bytes(m)
    ELSE <<19>> \o as_bytes(m) \o zeros(16)

\* set_paired_mac, "prepare report buffer".
set_report(protocol, m) ==
    IF protocol = "SixAxis"
    THEN <<245, 0>> \o as_bytes(m)
    ELSE <<19>> \o reverse(as_bytes(m)) \o zeros(16)

\* SixAxisController::set_paired_mac with the transport's answer.
set_paired_mac(protocol, m, io_ok) ==
    IF ~io_ok
    THEN [op |-> "set", ok |-> FALSE, err |-> HidError, val |-> None,
          report |-> set_report(protocol, m)]
    ELSE [op |-> "set", ok |-> TRUE, err |-> "", val |-> None,
          report |-> set_report(protocol, m)]

-----------------------------------------------------------------------------
(* The controller on the other side of the transport.                      *)

\* The six bytes the controller takes from a set report: offsets 2..7 of the
\* SixAxis report, 1..6 of the DualShock4 report.
device_store(protocol, buffer) ==
    IF protocol = "SixAxis" THEN SubSeq(buffer, 3, 8) ELSE SubSeq(buffer, 2, 7)

\* The get report of a controller that holds st, with first bytes h0 and h1,
\* of which the transport delivers the first n bytes.
device_reply(protocol, st, h0, h1, n) ==
    IF protocol = "SixAxis"
    THEN SubSeq(<<h0, h1>> \o st, 1, n)
    ELSE SubSeq(<<h0, h1>> \o zeros(8) \o st, 1, n)

-----------------------------------------------------------------------------
(* Inputs of the model.                                                    *)

\* Devices the transport may enumerate: the three known ones, an unknown
\* product of the same vendor, and a known product id under another vendor.
DeviceIds ==
    {USBDeviceId(1356, 616), USBDeviceId(1356, 1071), USBDeviceId(1356, 1476),
     USBDeviceId(1356, 1), USBDeviceId(1133, 616)}

DeviceLists == UNION {[1..n -> DeviceIds] : n \in 0..MaxDevices}

\* --vid / --pid values, and the device_id values open may be given.
VendorArgs == {None, Some(1356), Some(1133)}
ProductArgs == {None, Some(616), Some(1476), Some(1)}
DeviceIdArgs ==
    {None} \cup {Some(USBDeviceId(unwrap(v), unwrap(p))) :
                    v \in VendorArgs \ {None}, p \in ProductArgs \ {None}}
ProtocolArgs == {None} \cup {Some(p) : p \in SixAxisProtocol}

unit(i) == [j \in 1..6 |-> IF j = i THEN 255 ELSE 0]

\* MAC addresses given to set_paired_mac: 01:02:03:04:05:06,
\* AA:BB:CC:DD:EE:FF, 00:00:00:00:00:00 and FF in one place.
MacSamples ==
    {<<1, 2, 3, 4, 5, 6>>, <<170, 187, 204, 221, 238, 255>>, zeros(6)}
    \cup {unit(i) : i \in 1..6}

\* What a controller may hold before it is paired, in wire order.
StoredSamples == {<<6, 5, 4, 3, 2, 1>>, zeros(6)}

\* The mac argument of the pair command.
PairTexts ==
    {fmt(<<1, 2, 3, 4, 5, 6>>), fmt(<<170, 187, 204, 221, 238, 255>>),
     <<"A", "A", ":", "B", "B", ":", "C", "C">>}

\* The subcommands: get, and pair with its mac and verify (not --no-verify).
Commands ==
    {[command |-> "Get", verify |-> FALSE, mac |-> <<>>]}
    \cup {[command |-> "Pair", verify |-> v, mac |-> t] :
             v \in BOOLEAN, t \in PairTexts}

\* Bytes of the MAC addresses given to fmt.
ByteSamples == {0, 10, 171, 255}
MacInputs == [1..6 -> ByteSamples]

\* Segments a text given to from_string may hold in up to two places; the
\* other places hold AA, BB, CC, DD, EE, FF, 00, 11, ...
SegSamples ==
    {<<>>, <<"A">>, <<"0", "A">>, <<"f", "f">>, <<"Z", "Z">>, <<"+", "1">>,
     <<"-", "1">>, <<"1", "0", "0">>, <<"0", "0", "A">>, <<"0", "x">>}
BaseSeg(p) == fmt_02X(17 * ((9 + p) % 16))

RECURSIVE join(_)
join(segs) ==
    IF Len(segs) = 0 THEN <<>>
    ELSE IF Len(segs) = 1 THEN segs[1]
    ELSE segs[1] \o <<":">> \o join(Tail(segs))

TextInputs ==
    {join([p \in 1..n |-> IF p = i THEN s ELSE IF p = j THEN t ELSE BaseSeg(p)]) :
        n \in 1..MaxSegs, i \in 1..MaxSegs, j \in 1..MaxSegs,
        s \in SegSamples, t \in SegSamples \cup {BaseSeg(0)}}

\* First two bytes a get reply may carry, and the lengths it may have.
ReplyH0(protocol) == {get_request(protocol)[1], 0}
ReplyH1 == {0, 1}
ReplyLens(protocol) ==
    (Len(get_request(protocol)) - MaxShort)..Len(get_request(protocol))

-----------------------------------------------------------------------------
(* The program: src/src/main.rs, and direct callers of the session.        *)

NoResult == [op |-> "none", ok |-> FALSE, err |-> "", val |-> None]

Result(r) == [op |-> r.op, ok |-> r.ok, err |-> r.err, val |-> r.val]

MacIdle ==
    /\ mstep = "idle"
    /\ macv = None
    /\ text = <<>>
    /\ parsed = None

ProgStart ==
    /\ pc = "start"
    /\ caller = "none"
    /\ args = None
    /\ api = "none"
    /\ devs = <<>>
    /\ controller = None
    /\ opens = 0
    /\ mac = None
    /\ sent = None
    /\ stored = None
    /\ reply = None
    /\ report = None
    /\ result = NoResult
    /\ calls = 0
    /\ exit_code = None

\* std::process::exit(code): the process ends where it stands; no destructor
\* of the current stack runs, so the controller is left as it is.
exit(code) ==
    /\ pc' = "exited"
    /\ exit_code' = Some(code)

\* main: the checks on the arguments, then the subcommand.
Main(vendor_id, product_id, protocol, cmd) ==
    /\ pc = "start"
    /\ caller' = "main"
    /\ IF (vendor_id # None) # (product_id # None)
       THEN exit(1) /\ UNCHANGED args
       ELSE LET device_id ==
                    IF vendor_id # None
                    THEN Some(USBDeviceId(unwrap(vendor_id), unwrap(product_id)))
                    ELSE None
            IN  IF device_id # None /\ protocol = None
                THEN exit(1) /\ UNCHANGED args
                ELSE /\ args' = [device_id |-> device_id, protocol |-> protocol,
                                 command |-> cmd.command,
                                 verify |-> cmd.verify, mac |-> cmd.mac]
                     /\ pc' = IF cmd.command = "Get" THEN "connect"
                              ELSE "handle_pair"
                     /\ UNCHANGED exit_code
    /\ UNCHANGED <<api, devs, controller, opens, mac, sent, stored, reply, report,
                   result, calls>>
    /\ UNCHANGED macvars

\* handle_pair: parse the MAC address before connecting.
HandlePairParse ==
    /\ pc = "handle_pair"
    /\ LET m == from_string(args.mac)
       IN  IF ~m.ok
           THEN /\ exit(1)
                /\ result' = [op |-> "from_string", ok |-> FALSE,
                              err |-> m.kind, val |-> None]
                /\ UNCHANGED mac
           ELSE /\ mac' = m.bytes
                /\ result' = [op |-> "from_string", ok |-> TRUE, err |-> "",
                              val |-> m.bytes]
                /\ pc' = "connect"
                /\ UNCHANGED exit_code
    /\ UNCHANGED <<caller, args, api, devs, controller, opens, sent, stored, reply,
                   report, calls>>
    /\ UNCHANGED macvars

\* connect_controller, from handle_get and handle_pair.
Connect(api_ok, list, open_ok, st) ==
    /\ pc = "connect"
    /\ LET r == open(args.device_id, args.protocol, api_ok, list, open_ok)
       IN  /\ api' = IF api_ok THEN "ok" ELSE "failed"
           /\ devs' = IF api_ok THEN list ELSE devs
           /\ controller' = r.controller
           /\ opens' = opens + r.opens
           /\ result' = [op |-> "open", ok |-> r.ok, err |-> r.err, val |-> None]
           /\ stored' = IF r.ok THEN st ELSE stored
           /\ IF ~r.ok
              THEN exit(1)
              ELSE /\ pc' = IF args.command = "Get" THEN "get" ELSE "set"
                   /\ UNCHANGED exit_code
    /\ UNCHANGED <<caller, args, mac, sent, reply, report, calls>>
    /\ UNCHANGED macvars

\* handle_get: get the paired MAC, print it, exit.
HandleGet(io_ok, h0, h1, n) ==
    /\ pc = "get"
    /\ LET protocol == unwrap(controller).protocol
           received == device_reply(protocol, stored, h0, h1, n)
           r == get_paired_mac(protocol, io_ok, received)
       IN  /\ reply' = IF io_ok THEN Some(received) ELSE None
           /\ report' = r.report
           /\ result' = Result(r)
           /\ exit(IF r.ok THEN 0 ELSE 1)
    /\ UNCHANGED <<caller, args, api, devs, controller, opens, mac, sent, stored,
                   calls>>
    /\ UNCHANGED macvars

\* handle_pair: pair the controller.
HandlePairSet(io_ok) ==
    /\ pc = "set"
    /\ LET protocol == unwrap(controller).protocol
           r == set_paired_mac(protocol, mac, io_ok)
       IN  /\ sent' = r.report
           /\ stored' = IF io_ok THEN device_store(protocol, r.report)
                        ELSE stored
           /\ result' = Result(r)
           /\ IF ~r.ok THEN exit(1)
              ELSE IF args.verify THEN pc' = "verify" /\ UNCHANGED exit_code
              ELSE exit(0)
    /\ UNCHANGED <<caller, args, api, devs, controller, opens, mac, reply, report,
                   calls>>
    /\ UNCHANGED macvars

\* handle_pair: fetch the paired MAC again and compare (paired_mac != mac,
\* byte for byte).
HandlePairVerify(io_ok, h0, h1, n) ==
    /\ pc = "verify"
    /\ LET protocol == unwrap(controller).protocol
           received == device_reply(protocol, stored, h0, h1, n)
           r == get_paired_mac(protocol, io_ok, received)
       IN  /\ reply' = IF io_ok THEN Some(received) ELSE None
           /\ report' = r.report
           /\ result' = Result(r)
           /\ IF ~r.ok THEN exit(1)
              ELSE IF r.val # mac THEN exit(1)
              ELSE exit(0)
    /\ UNCHANGED <<caller, args, api, devs, controller, opens, mac, sent, stored,
                   calls>>
    /\ UNCHANGED macvars

\* SixAxisController::open called by any other caller, with any arguments.
ApiOpen(device_id, protocol, api_ok, list, open_ok, st) ==
    /\ pc = "start"
    /\ caller' = "api"
    /\ args' = [device_id |-> device_id, protocol |-> protocol,
                command |-> "open", verify |-> FALSE, mac |-> <<>>]
    /\ LET r == open(device_id, protocol, api_ok, list, open_ok)
       IN  /\ api' = IF api_ok THEN "ok" ELSE "failed"
           /\ devs' = IF api_ok THEN list ELSE devs
           /\ controller' = r.controller
           /\ opens' = opens + r.opens
           /\ result' = [op |-> "open", ok |-> r.ok, err |-> r.err, val |-> None]
           /\ stored' = IF r.ok THEN st ELSE stored
           /\ pc' = IF r.ok THEN "session" ELSE "done"
    /\ UNCHANGED <<mac, sent, reply, report, calls, exit_code>>
    /\ UNCHANGED macvars

\* get_paired_mac called on an open session.
ApiGet(io_ok, h0, h1, n) ==
    /\ pc = "session"
    /\ calls < MaxCalls
    /\ calls' = calls + 1
    /\ LET protocol == unwrap(controller).protocol
           received == device_reply(protocol, stored, h0, h1, n)
           r == get_paired_mac(protocol, io_ok, received)
       IN  /\ reply' = IF io_ok THEN Some(received) ELSE None
           /\ report' = r.report
           /\ result' = Result(r)
    /\ UNCHANGED <<pc, caller, args, api, devs, controller, opens, mac, sent, stored,
                   exit_code>>
    /\ UNCHANGED macvars

\* set_paired_mac called on an open session.
ApiSet(m, io_ok) ==
    /\ pc = "session"
    /\ calls < MaxCalls
    /\ calls' = calls + 1
    /\ mac' = m
    /\ LET protocol == unwrap(controller).protocol
           r == set_paired_mac(protocol, m, io_ok)
       IN  /\ sent' = r.report
           /\ stored' = IF io_ok THEN device_store(protocol, r.report)
                        ELSE stored
           /\ result' = Result(r)
    /\ reply' = None
    /\ report' = None
    /\ UNCHANGED <<pc, caller, args, api, devs, controller, opens, exit_code>>
    /\ UNCHANGED macvars

\* The caller lets go of the SixAxisController: its HidDevice is dropped and
\* the handle closed.
Release ==
    /\ pc = "session"
    /\ controller' = Some([unwrap(controller) EXCEPT !.handle = "Closed"])
    /\ pc' = "done"
    /\ UNCHANGED <<caller, args, api, devs, opens, mac, sent, stored, reply, report,
                   result, calls, exit_code>>
    /\ UNCHANGED macvars

-----------------------------------------------------------------------------
(* The MAC value on its own: format a MACAddress, parse a text.            *)

MacFmt ==
    /\ mstep = "mac"
    /\ text' = fmt(macv)
    /\ mstep' = "text"
    /\ UNCHANGED <<macv, parsed>>
    /\ UNCHANGED progvars

MacFromString ==
    /\ mstep = "text"
    /\ parsed' = from_string(text)
    /\ mstep' = "parsed"
    /\ UNCHANGED <<macv, text>>
    /\ UNCHANGED progvars

-----------------------------------------------------------------------------
(* The steps with their inputs: the arguments a caller may give and the    *)
(* answers the transport may give.                                         *)

MainStep ==
    /\ pc = "start"
    /\ \E v \in VendorArgs, p \in ProductArgs, pr \in ProtocolArgs,
          cmd \in Commands : Main(v, p, pr, cmd)

ConnectStep ==
    /\ pc = "connect"
    /\ \E api_ok \in BOOLEAN, list \in DeviceLists, open_ok \in BOOLEAN,
          st \in StoredSamples : Connect(api_ok, list, open_ok, st)

HandleGetStep ==
    /\ pc = "get"
    /\ \E io_ok \in BOOLEAN, h1 \in ReplyH1,
          h0 \in ReplyH0(unwrap(controller).protocol),
          n \in ReplyLens(unwrap(controller).protocol) :
          HandleGet(io_ok, h0, h1, n)

HandlePairSetStep ==
    /\ pc = "set"
    /\ \E io_ok \in BOOLEAN : HandlePairSet(io_ok)

HandlePairVerifyStep ==
    /\ pc = "verify"
    /\ \E io_ok \in BOOLEAN, h1 \in ReplyH1,
          h0 \in ReplyH0(unwrap(controller).protocol),
          n \in ReplyLens(unwrap(controller).protocol) :
          HandlePairVerify(io_ok, h0, h1, n)

ApiOpenStep ==
    /\ pc = "start"
    /\ \E d \in DeviceIdArgs, pr \in ProtocolArgs, api_ok \in BOOLEAN,
          list \in DeviceLists, open_ok \in BOOLEAN, st \in StoredSamples :
          ApiOpen(d, pr, api_ok, list, open_ok, st)

ApiGetStep ==
    /\ pc = "session"
    /\ \E io_ok \in BOOLEAN, h1 \in ReplyH1,
          h0 \in ReplyH0(unwrap(controller).protocol),
          n \in ReplyLens(unwrap(controller).protocol) :
          ApiGet(io_ok, h0, h1, n)

ApiSetStep ==
    /\ pc = "session"
    /\ \E m \in MacSamples, io_ok \in BOOLEAN : ApiSet(m, io_ok)

-----------------------------------------------------------------------------
(* Specifications.                                                         *)

\* The command-line program, and open called directly.
Init == MacIdle /\ ProgStart

Next ==
    \/ MainStep
    \/ HandlePairParse
    \/ ConnectStep
    \/ HandleGetStep
    \/ HandlePairSetStep
    \/ HandlePairVerifyStep
    \/ ApiOpenStep
    \/ Release

Spec == Init /\ [][Next]_vars

\* An open session, as open leaves it, and the operations on it.
SessionInit ==
    /\ MacIdle
    /\ pc = "session"
    /\ caller = "api"
    /\ args = [device_id |-> None, protocol |-> None, command |-> "open",
               verify |-> FALSE, mac |-> <<>>]
    /\ api = "ok"
    /\ \E k \in 1..Len(KNOWN_DEVICES) :
          /\ devs = <<KNOWN_DEVICES[k].id>>
          /\ controller = Some([device |-> 1,
                                protocol |-> KNOWN_DEVICES[k].protocol,
                                handle |-> "Open"])
    /\ opens = 1
    /\ mac = None
    /\ sent = None
    /\ stored \in StoredSamples
    /\ reply = None
    /\ report = None
    /\ result = [op |-> "open", ok |-> TRUE, err |-> "", val |-> None]
    /\ calls = 0
    /\ exit_code = None

SessionNext == ApiGetStep \/ ApiSetStep \/ Release

SpecSession == SessionInit /\ [][SessionNext]_vars

\* The MAC value on its own.
MacInit ==
    /\ ProgStart
    /\ parsed = None
    /\ \/ mstep = "mac" /\ macv \in MacInputs /\ text = <<>>
       \/ mstep = "text" /\ macv = None /\ text \in TextInputs

MacNext == MacFmt \/ MacFromString

SpecMac == MacInit /\ [][MacNext]_vars

-----------------------------------------------------------------------------
(* Properties.                                                             *)

Protocol == unwrap(controller).protocol

\* C1: the buffer set_paired_mac hands to the transport is the protocol's set
\* layout: SixAxis 8 bytes [0xF5, 0x00, mac[0..5] as stored]; DualShock4 23
\* bytes with 0x13 at offset 0, the MAC bytes reversed at offsets 1..6 and
\* zero at offsets 7..22.
C1_SetReportLayout ==
    result.op = "set" =>
        IF Protocol = "SixAxis"
        THEN /\ Len(sent) = 8
             /\ sent[1] = 245
             /\ sent[2] = 0
             /\ \A i \in 1..6 : sent[2 + i] = mac[i]
        ELSE /\ Len(sent) = 23
             /\ sent[1] = 19
             /\ \A i \in 1..6 : sent[1 + i] = mac[7 - i]
             /\ \A i \in 8..23 : sent[i] = 0

C1_Witness ==
    /\ result.op = "set"
    /\ Protocol = "DualShock4"
    /\ mac = <<1, 2, 3, 4, 5, 6>>
    /\ sent = <<19, 6, 5, 4, 3, 2, 1>> \o zeros(16)

\* A reply in the get layout: 8 bytes with header {0xF5, 0} for SixAxis, 16
\* bytes for DualShock4.
WellFormedReply(protocol, r) ==
    IF protocol = "SixAxis"
    THEN Len(r) = 8 /\ r[1] = 245 /\ r[2] = 0
    ELSE Len(r) = 16

\* The six bytes at the MAC offset of a get-layout reply (SixAxis 2..7,
\* DualShock4 10..15) and of a set-layout report (SixAxis 2..7, DualShock4
\* 1..6).
ReplyMacBytes(protocol, r) ==
    IF protocol = "SixAxis" THEN SubSeq(r, 3, 8) ELSE SubSeq(r, 11, 16)
SetMacBytes(protocol, r) ==
    IF protocol = "SixAxis" THEN SubSeq(r, 3, 8) ELSE SubSeq(r, 2, 7)

\* C2: codec round trip: when a well-formed get reply carries, at its MAC
\* offset, the six wire bytes that encoding a MAC m puts into the set report,
\* get_paired_mac returns m.
C2_CodecRoundTrip ==
    (result.op = "get" /\ reply # None
        /\ WellFormedReply(Protocol, unwrap(reply))) =>
        \A m \in MacSamples :
            SetMacBytes(Protocol, set_report(Protocol, m))
                = ReplyMacBytes(Protocol, unwrap(reply))
            => result.ok /\ result.val = m

C2_Witness ==
    /\ result.op = "get"
    /\ Protocol = "DualShock4"
    /\ mac = <<1, 2, 3, 4, 5, 6>>
    /\ sent = <<19, 6, 5, 4, 3, 2, 1>> \o zeros(16)
    /\ reply = Some(<<18>> \o zeros(9) \o <<6, 5, 4, 3, 2, 1>>)
    /\ result.ok
    /\ result.val = <<1, 2, 3, 4, 5, 6>>

\* The get length of a protocol: 8 for SixAxis, 16 for DualShock4.
ExpectedGetLen(protocol) == IF protocol = "SixAxis" THEN 8 ELSE 16

\* C3: get_paired_mac fails with UnexpectedResponseLength whenever the reply
\* the transport delivered is not of the protocol's get length.
C3_ShortReplyRejected ==
    (result.op = "get" /\ reply # None
        /\ Len(unwrap(reply)) # ExpectedGetLen(Protocol)) =>
        ~result.ok /\ result.err = "UnexpectedResponseLength"

\* C4: for SixAxis, get_paired_mac returns a MAC only if the reply starts
\* with {0xF5, 0x00}; an 8-byte reply with another header fails with
\* UnexpectedResponseHeader.
C4_BadHeaderRejected ==
    (result.op = "get" /\ reply # None /\ Protocol = "SixAxis"
        /\ Len(unwrap(reply)) = 8
        /\ (unwrap(reply)[1] # 245 \/ unwrap(reply)[2] # 0)) =>
        ~result.ok /\ result.err = "UnexpectedResponseHeader"

\* A device of the enumerated list equals the filter.
FilterMatches ==
    \E i \in 1..Len(devs) :
        /\ devs[i].vendor = unwrap(args.device_id).vendor
        /\ devs[i].product = unwrap(args.device_id).product

\* C5: open with a filter and no protocol, when an enumerated device equals
\* the filter, fails with ProtocolRequired before any transport open; no
\* controller exists without a protocol; with a filter and a protocol the
\* matching device is opened and a controller built holds that protocol.
C5_ProtocolRequired ==
    /\ controller # None => Protocol \in {"SixAxis", "DualShock4"}
    /\ result.op = "open" /\ args.device_id # None /\ FilterMatches =>
        IF args.protocol = None
        THEN /\ ~result.ok
             /\ result.err = "Device found, but no protocol specified."
             /\ opens = 0
             /\ controller = None
        ELSE /\ opens = 1
             /\ result.ok \/ result.err = HidError
             /\ result.ok <=> controller # None
             /\ result.ok => Protocol = unwrap(args.protocol)

C5_Witness ==
    /\ result.op = "open"
    /\ args.device_id = Some(USBDeviceId(1356, 616))
    /\ args.protocol = None
    /\ devs = <<USBDeviceId(1356, 616)>>
    /\ result.err = "Device found, but no protocol specified."
    /\ opens = 0

\* The known-device table: 0x054C:0x0268 and 0x054C:0x042F are SixAxis,
\* 0x054C:0x05C4 is DualShock4.
InTable(d) == d.vendor = 1356 /\ d.product \in {616, 1071, 1476}
TableProtocol(d) == IF d.product = 1476 THEN "DualShock4" ELSE "SixAxis"

\* C6: without a filter, the device opened is the first enumerated device
\* that is in the known-device table, and the session's protocol is that
\* record's, whatever protocol the caller passed.
C6_AutoDetect ==
    (result.op = "open" /\ args.device_id = None /\ api = "ok") =>
        IF \E i \in 1..Len(devs) : InTable(devs[i])
        THEN LET first == CHOOSE i \in 1..Len(devs) :
                              /\ InTable(devs[i])
                              /\ \A h \in 1..(i - 1) : ~InTable(devs[h])
             IN  /\ opens = 1
                 /\ result.ok \/ result.err = HidError
                 /\ result.ok <=> controller # None
                 /\ result.ok =>
                        /\ unwrap(controller).device = first
                        /\ Protocol = TableProtocol(devs[first])
        ELSE ~result.ok /\ controller = None

C6_Witness ==
    /\ result.op = "open"
    /\ args.device_id = None
    /\ args.protocol = Some("SixAxis")
    /\ devs = <<USBDeviceId(1356, 1), USBDeviceId(1356, 1476)>>
    /\ result.ok
    /\ unwrap(controller).device = 2
    /\ Protocol = "DualShock4"

\* No enumerated device qualifies: none equals the filter, or, without a
\* filter, none is in the known-device table.
NoneQualifies ==
    IF args.device_id # None THEN ~FilterMatches
    ELSE \A i \in 1..Len(devs) : ~InTable(devs[i])

\* C7: if no enumerated device qualifies, open fails with
\* NoSupportedDeviceFound, opens nothing and builds no controller.
C7_NoSupportedDevice ==
    (result.op = "open" /\ api = "ok" /\ NoneQualifies) =>
        /\ ~result.ok
        /\ result.err = "No supported devices found."
        /\ opens = 0
        /\ controller = None

C7_Witness ==
    /\ result.op = "open"
    /\ api = "ok"
    /\ args.device_id = Some(USBDeviceId(1356, 616))
    /\ args.protocol = Some("SixAxis")
    /\ devs = <<USBDeviceId(1133, 616), USBDeviceId(1356, 1071)>>
    /\ result.err = "No supported devices found."
    /\ opens = 0

HexChars == {UpperHex[i] : i \in 1..16} \cup {LowerHex[i] : i \in 1..16}
TwoHexDigits(seg) == Len(seg) = 2 /\ seg[1] \in HexChars /\ seg[2] \in HexChars

\* C8: from_string fails with MalformedAddress (expected 6, the actual count)
\* when the text has not exactly 6 segments; otherwise with InvalidByte, naming
\* the 1-based position and the text of the first segment that is not two hex
\* digits; it returns a MACAddress only when all 6 segments are two hex digits.
C8_ParseRejectsMalformed ==
    mstep = "parsed" =>
        LET segs == split(text)
        IN  IF Len(segs) # 6
            THEN /\ ~parsed.ok
                 /\ parsed.kind = "MalformedAddress"
                 /\ parsed.expected = 6
                 /\ parsed.got = Len(segs)
            ELSE IF \E i \in 1..6 : ~TwoHexDigits(segs[i])
            THEN LET first == CHOOSE i \in 1..6 :
                                  /\ ~TwoHexDigits(segs[i])
                                  /\ \A h \in 1..(i - 1) : TwoHexDigits(segs[h])
                 IN  /\ ~parsed.ok
                     /\ parsed.kind = "InvalidByte"
                     /\ parsed.position = first
                     /\ parsed.text = segs[first]
            ELSE parsed.ok

UpperHexValue(c) == (CHOOSE i \in 1..16 : UpperHex[i] = c) - 1

\* C9: fmt yields six two-digit upper-case hex pairs joined by ':', most
\* significant byte first, and from_string of that text gives the same bytes.
C9_TextRoundTrip ==
    (macv # None /\ mstep \in {"text", "parsed"}) =>
        /\ Len(text) = 17
        /\ \A k \in 0..5 :
               /\ text[3 * k + 1] \in {UpperHex[i] : i \in 1..16}
               /\ text[3 * k + 2] \in {UpperHex[i] : i \in 1..16}
               /\ 16 * UpperHexValue(text[3 * k + 1])
                     + UpperHexValue(text[3 * k + 2]) = macv[k + 1]
               /\ k < 5 => text[3 * k + 3] = ":"
        /\ mstep = "parsed" => parsed.ok /\ parsed.bytes = macv

C9_Witness ==
    /\ mstep = "parsed"
    /\ macv = <<171, 10, 0, 255, 10, 171>>
    /\ text = <<"A", "B", ":", "0", "A", ":", "0", "0", ":",
                "F", "F", ":", "0", "A", ":", "A", "B">>
    /\ parsed.ok
    /\ parsed.bytes = macv

\* C10: once the get or pair sequence has opened a session, its handle is
\* released (Open -> Closed) before the sequence ends, on every exit path.
C10_HandleReleased ==
    (pc = "exited" /\ controller # None) =>
        unwrap(controller).handle = "Closed"

=============================================================================
